---- MODULE Spec2Model ----
(***************************************************************************)
(* Window-lifecycle and input-dispatch engine of vrr-test.                 *)
(*                                                                         *)
(* The Application owns a registry of WindowState values keyed by window   *)
(* identifier and an optional presentation context.  The host event loop   *)
(* delivers one event at a time on one thread; every handler of            *)
(* ApplicationHandler is one action.  Collaborator calls made by a handler *)
(* (request_redraw, surface resize, present, set_fullscreen, exit, ...)    *)
(* are recorded, in order, in `calls`; the event being handled in `ev`.    *)
(* The wake-up thread of main steps beside the loop and touches only its   *)
(* EventLoopProxy.                                                         *)
(* Strings are sequences of one-character strings, so that to_uppercase    *)
(* and string equality are computed and not assumed.                       *)
(***************************************************************************)
EXTENDS Integers, Sequences, FiniteSets, TLC

VARIABLES
    windows,        \* Application.windows : WindowId -> WindowState
    context,        \* Application.context : "Some" | "None"
    created,        \* number of windows the host has created (ids 1..created)
    exit_requested, \* event_loop.exit() has been called
    status,         \* "running" | "exited" | "panicked"
    platform,       \* cfg(target_os): "linux" | "windows"
    ev,             \* the event delivered to the handler that ran last
    calls,          \* collaborator calls made by that handler, in order
    proxy           \* the EventLoopProxy as the wake-up thread has seen it:
                    \* "Open" | "Closed" (a send_event answered EventLoopClosed)

\* ev.op comes first: two events of different kinds carry payloads of
\* different types, and are told apart by their kind
vars == <<ev.op, windows, context, created, exit_requested, status, platform, ev, calls,
          proxy>>

----------------------------------------------------------------------------
(* Bounds of the model *)

MaxWindows == 2      \* windows the host creates in one run
MaxDim     == 2      \* physical sizes are drawn from (0..MaxDim) x (0..MaxDim)

WindowIds == 1..MaxWindows

----------------------------------------------------------------------------
(* Values *)

CloseWindow      == "CloseWindow"
ToggleFullscreen == "ToggleFullscreen"
Action == {CloseWindow, ToggleFullscreen}

\* ModifiersState bit flags
SHIFT   == "SHIFT"
CONTROL == "CONTROL"
ALT     == "ALT"
SUPER   == "SUPER"
ModifiersState == SUBSET {SHIFT, CONTROL, ALT, SUPER}

\* Option<T>
None      == <<>>
Some(x)   == <<x>>
IsSome(o) == o /= <<>>
Unwrap(o) == o[1]

\* Fullscreen modes of a window, as Window::fullscreen reports them
NoFullscreen    == [kind |-> "None", mode |-> <<>>]
Borderless      == [kind |-> "Borderless", mode |-> <<>>]
Exclusive(mode) == [kind |-> "Exclusive", mode |-> <<mode>>]

\* A collaborator call with its argument and result
Call(name, w, arg, res) == [call |-> name, win |-> w, arg |-> <<arg>>, res |-> res]

----------------------------------------------------------------------------
(* Key bindings *)

Binding(trigger, mods, action) ==
    [trigger |-> trigger, mods |-> mods, action |-> action]

KEY_BINDINGS ==
    << Binding(<<"Q">>, {CONTROL}, CloseWindow),
       Binding(<<"F">>, {CONTROL}, ToggleFullscreen) >>

\* is_triggered_by with a subset check on the modifiers instead of equality
is_triggered_by_subset(binding, trigger, mods) ==
    binding.trigger = trigger /\ binding.mods \subseteq mods

is_triggered_by(binding, trigger, mods) ==
    binding.trigger = trigger /\ binding.mods = mods

\* Iterator::find_map over KEY_BINDINGS starting at index i: first match wins
RECURSIVE find_map(_, _, _)
find_map(i, key, mods) ==
    IF i > Len(KEY_BINDINGS) THEN None
    ELSE IF is_triggered_by(KEY_BINDINGS[i], key, mods)
         THEN Some(KEY_BINDINGS[i].action)
         ELSE find_map(i + 1, key, mods)

process_key_binding(key, mods) == find_map(1, key, mods)

\* char::to_uppercase: one character may map to several (German sharp s)
UpperChar(c) ==
    CASE c = "q" -> <<"Q">>
      [] c = "f" -> <<"F">>
      [] c = "x" -> <<"X">>
      [] c = "s" -> <<"S">>
      [] c = "ß" -> <<"S", "S">>
      [] OTHER   -> <<c>>

\* str::to_uppercase
RECURSIVE to_uppercase(_)
to_uppercase(s) ==
    IF s = <<>> THEN <<>> ELSE UpperChar(Head(s)) \o to_uppercase(Tail(s))

----------------------------------------------------------------------------
(* WindowState *)

\* the surface has no geometry until its first successful resize
Unsized == <<>>

\* Outcome of a WindowState method: the new state, the collaborator calls it
\* made, whether it returned an error, whether it panicked
Outcome(ws, cs, err, panic) == [ws |-> ws, calls |-> cs, err |-> err, panic |-> panic]

\* resize without the zero-dimension guard
resize_unchecked(ws, w, size, resize_ok) ==
    IF ~resize_ok
    THEN Outcome(ws, << Call("surface_resize", w, size, "Err") >>, FALSE, TRUE)
    ELSE Outcome([ws EXCEPT !.surface = size],
                 << Call("surface_resize", w, size, "Ok"),
                    Call("request_redraw", w, "-", "Ok") >>, FALSE, FALSE)

resize(ws, w, size, resize_ok) ==
    IF size[1] = 0 \/ size[2] = 0
    THEN Outcome(ws, <<>>, FALSE, FALSE)
    ELSE IF ~resize_ok
    THEN Outcome(ws, << Call("surface_resize", w, size, "Err") >>, FALSE, TRUE)
    ELSE Outcome([ws EXCEPT !.surface = size],
                 << Call("surface_resize", w, size, "Ok"),
                    Call("request_redraw", w, "-", "Ok") >>, FALSE, FALSE)

\* set_occluded that requests a redraw only when the window was occluded
set_occluded_transition(ws, w, occluded) ==
    Outcome([ws EXCEPT !.occluded = occluded],
            IF ws.occluded /\ ~occluded
            THEN << Call("request_redraw", w, "-", "Ok") >> ELSE <<>>,
            FALSE, FALSE)

\* set_occluded that requests a redraw on every call
set_occluded_always(ws, w, occluded) ==
    Outcome([ws EXCEPT !.occluded = occluded],
            << Call("request_redraw", w, "-", "Ok") >>, FALSE, FALSE)

set_occluded(ws, w, occluded) ==
    Outcome([ws EXCEPT !.occluded = occluded],
            IF ~occluded THEN << Call("request_redraw", w, "-", "Ok") >> ELSE <<>>,
            FALSE, FALSE)

\* draw that notifies the window before it acquires the buffer
draw_notify_first(ws, w, buffer_ok, present_ok) ==
    LET notify == << Call("pre_present_notify", w, "-", "Ok") >>
    IN  IF ws.occluded
        THEN Outcome(ws, <<>>, FALSE, FALSE)
        ELSE IF ~buffer_ok
        THEN Outcome(ws, notify \o << Call("buffer_mut", w, "-", "Err") >>, TRUE, FALSE)
        ELSE Outcome(ws,
                     notify \o
                     << Call("buffer_mut", w, "-", "Ok"),
                        Call("present", w, "-", IF present_ok THEN "Ok" ELSE "Err") >>,
                     ~present_ok, FALSE)

\* draw without the occlusion check
draw_unconditional(ws, w, buffer_ok, present_ok) ==
    IF ~buffer_ok
    THEN Outcome(ws, << Call("buffer_mut", w, "-", "Err") >>, TRUE, FALSE)
    ELSE Outcome(ws,
                 << Call("buffer_mut", w, "-", "Ok"),
                    Call("pre_present_notify", w, "-", "Ok"),
                    Call("present", w, "-", IF present_ok THEN "Ok" ELSE "Err") >>,
                 ~present_ok, FALSE)

draw(ws, w, buffer_ok, present_ok) ==
    IF ws.occluded
    THEN Outcome(ws, <<>>, FALSE, FALSE)
    ELSE IF ~buffer_ok
    THEN Outcome(ws, << Call("buffer_mut", w, "-", "Err") >>, TRUE, FALSE)
    ELSE Outcome(ws,
                 << Call("buffer_mut", w, "-", "Ok"),
                    Call("pre_present_notify", w, "-", "Ok"),
                    Call("present", w, "-", IF present_ok THEN "Ok" ELSE "Err") >>,
                 ~present_ok, FALSE)

cursor_moved(ws, position) == [ws EXCEPT !.cursor_position = Some(position)]

cursor_left(ws) == [ws EXCEPT !.cursor_position = None]

\* the key of max_by_key with height ahead of width
ModeKey_height_first(mode) == <<mode.height, mode.width, mode.refresh>>

\* the key of max_by_key in toggle_fullscreen, compared lexicographically
ModeKey(mode) == <<mode.width, mode.height, mode.refresh>>

KeyLeq(a, b) ==
    \/ a[1] < b[1]
    \/ a[1] = b[1] /\ a[2] < b[2]
    \/ a[1] = b[1] /\ a[2] = b[2] /\ a[3] <= b[3]

\* Iterator::max_by_key: the last element with the maximum key, None if empty
RECURSIVE max_by_key(_)
max_by_key(modes) ==
    IF modes = <<>> THEN None
    ELSE LET rest == max_by_key(Tail(modes))
         IN  IF IsSome(rest) /\ KeyLeq(ModeKey(Head(modes)), ModeKey(Unwrap(rest)))
             THEN rest
             ELSE Some(Head(modes))

\* toggle_fullscreen; monitor is what Window::current_monitor answers
\* (None, or Some(list of video modes)); it is asked on windows only, and
\* the video_modes call answers the list
toggle_fullscreen(ws, w, os, monitor) ==
    LET asked  == << Call("current_monitor", w, "-",
                          IF IsSome(monitor) THEN "Some" ELSE "None") >>
        query  == IF IsSome(monitor)
                  THEN asked \o << Call("video_modes", w, "-", Unwrap(monitor)) >>
                  ELSE asked
        chosen == IF IsSome(monitor) THEN max_by_key(Unwrap(monitor)) ELSE None
        target == IF ws.fullscreen.kind /= "None" THEN NoFullscreen
                  ELSE IF os = "windows" THEN Exclusive(Unwrap(chosen))
                  ELSE Borderless
    IN  IF os = "windows" /\ ~IsSome(monitor)
        THEN Outcome(ws, query, FALSE, TRUE)
        ELSE IF os = "windows" /\ ~IsSome(chosen)
        THEN Outcome(ws, query, FALSE, TRUE)
        ELSE Outcome([ws EXCEPT !.fullscreen = target],
                     (IF os = "windows" THEN query ELSE <<>>)
                        \o << Call("set_fullscreen", w, target, "Ok") >>,
                     FALSE, FALSE)

----------------------------------------------------------------------------
(* Application *)

WindowState(surface) ==
    [ surface         |-> surface,
      fullscreen      |-> NoFullscreen,
      cursor_position |-> None,
      modifiers       |-> {},
      occluded        |-> FALSE ]

\* WindowState::new that makes the surface without looking at the context
WindowState_new_unchecked(ctx, w, inner_size, surface_ok, resize_ok) ==
    LET hide == << Call("set_cursor_visible", w, FALSE, "Ok") >>
        made == hide \o << Call("surface_new", w, "-", "Ok"),
                           Call("set_cursor", w, "Default", "Ok") >>
        r    == resize(WindowState(Unsized), w, inner_size, resize_ok)
    IN  IF ~surface_ok
        THEN Outcome(None, hide \o << Call("surface_new", w, "-", "Err") >>, TRUE, FALSE)
        ELSE Outcome(Some(r.ws), made \o r.calls, FALSE, r.panic)

\* WindowState::new without the resize to the window's inner size
WindowState_new_unsized(ctx, w, inner_size, surface_ok, resize_ok) ==
    LET hide == << Call("set_cursor_visible", w, FALSE, "Ok") >>
        made == hide \o << Call("surface_new", w, "-", "Ok"),
                           Call("set_cursor", w, "Default", "Ok") >>
    IN  IF ctx = "None"
        THEN Outcome(None, hide, FALSE, TRUE)
        ELSE IF ~surface_ok
        THEN Outcome(None, hide \o << Call("surface_new", w, "-", "Err") >>, TRUE, FALSE)
        ELSE Outcome(Some(WindowState(Unsized)), made, FALSE, FALSE)

\* WindowState::new for window w; inner_size is what Window::inner_size answers
WindowState_new(ctx, w, inner_size, surface_ok, resize_ok) ==
    LET hide == << Call("set_cursor_visible", w, FALSE, "Ok") >>
        made == hide \o << Call("surface_new", w, "-", "Ok"),
                           Call("set_cursor", w, "Default", "Ok") >>
        r    == resize(WindowState(Unsized), w, inner_size, resize_ok)
    IN  IF ctx = "None"
        THEN Outcome(None, hide, FALSE, TRUE)
        ELSE IF ~surface_ok
        THEN Outcome(None, hide \o << Call("surface_new", w, "-", "Err") >>, TRUE, FALSE)
        ELSE Outcome(Some(r.ws), made \o r.calls, FALSE, r.panic)

\* Outcome of an Application method: the new registry instead of a WindowState
create_window(wins, ctx, w, create_ok, inner_size, surface_ok, resize_ok) ==
    LET n == WindowState_new(ctx, w, inner_size, surface_ok, resize_ok)
        c == << Call("create_window", w, "-", "Ok") >>
    IN  IF ~create_ok
        THEN Outcome(wins, << Call("create_window", w, "-", "Err") >>, TRUE, FALSE)
        ELSE IF n.panic \/ n.err
        THEN Outcome(wins, c \o n.calls, n.err, n.panic)
        ELSE Outcome([x \in DOMAIN wins \cup {w} |->
                          IF x = w THEN Unwrap(n.ws) ELSE wins[x]],
                     c \o n.calls, FALSE, FALSE)

\* Display of an unsigned integer: its decimal digits, without padding
Digits == <<"0", "1", "2", "3", "4", "5", "6", "7", "8", "9">>

RECURSIVE Decimal(_)
Decimal(n) ==
    IF n < 10 THEN << Digits[n + 1] >>
    ELSE Decimal(n \div 10) \o << Digits[(n % 10) + 1] >>

\* format!("{}.{} Hz", m_hz / 1000, m_hz % 1000)
format_hz(m_hz) ==
    Decimal(m_hz \div 1000) \o <<".">> \o Decimal(m_hz % 1000) \o <<" ", "H", "z">>

\* what the host answers for a monitor: the refresh rate of its current mode
\* in millihertz, if it knows it, and the millihertz rates of its video modes
Monitor(refresh, modes) == [refresh |-> refresh, modes |-> modes]

AvailableMonitors ==
    { Monitor(None, <<59940>>),
      Monitor(Some(60050), <<60500>>),
      Monitor(Some(144000), <<60005, 75000>>) }

\* the rate lines of one dump: a line for each mode, after the line of the
\* current mode when its rate is known, each with the value it is made from
RECURSIVE RateLines(_)
RateLines(rates) ==
    IF rates = <<>> THEN <<>>
    ELSE << [m_hz |-> Head(rates), text |-> format_hz(Head(rates))] >>
            \o RateLines(Tail(rates))

\* dump_monitors for the monitor the host lists
dump_monitors(monitor) ==
    << Call("dump_monitors", 0, monitor,
            RateLines(monitor.refresh \o monitor.modes)) >>

Remove(wins, w) == [x \in DOMAIN wins \ {w} |-> wins[x]]

\* handle_action whose CloseWindow clears the whole registry
\* (the call is recorded with "Err" when the unwrap of the lookup fails)
handle_action_clear(wins, w, action, os, monitor) ==
    LET enter == << Call("handle_action", w, action, "Ok") >>
        t     == toggle_fullscreen(wins[w], w, os, monitor)
    IN  IF w \notin DOMAIN wins
        THEN Outcome(wins, << Call("handle_action", w, action, "Err") >>, FALSE, TRUE)
        ELSE IF action = CloseWindow
        THEN Outcome(<<>>, enter, FALSE, FALSE)
        ELSE Outcome([wins EXCEPT ![w] = t.ws], enter \o t.calls, FALSE, t.panic)

handle_action(wins, w, action, os, monitor) ==
    LET enter == << Call("handle_action", w, action, "Ok") >>
        t     == toggle_fullscreen(wins[w], w, os, monitor)
    IN  IF w \notin DOMAIN wins
        THEN Outcome(wins, << Call("handle_action", w, action, "Err") >>, FALSE, TRUE)
        ELSE IF action = CloseWindow
        THEN Outcome(Remove(wins, w), enter, FALSE, FALSE)
        ELSE Outcome([wins EXCEPT ![w] = t.ws], enter \o t.calls, FALSE, t.panic)

----------------------------------------------------------------------------
(* Events *)

Event(op, w, arg) == [op |-> op, win |-> w, arg |-> <<arg>>]

Character(text) == [kind |-> "Character", text |-> text]
Named(name)     == [kind |-> "Named", text |-> <<name>>]

KeyEvent(key, is_synthetic, pressed) ==
    [logical_key |-> key, is_synthetic |-> is_synthetic, pressed |-> pressed]

\* the loop is running and exit was not requested
Running == status = "running" /\ ~exit_requested

\* the host delivers its events after the first resumed
Delivering == Running /\ created > 0

\* the handler ran on event e and returned (or panicked) with outcome o
Handled(e, o) ==
    /\ ev' = e
    /\ windows' = o.ws
    /\ calls' = o.calls
    /\ status' = IF o.panic THEN "panicked" ELSE status
    /\ UNCHANGED <<context, created, exit_requested, platform, proxy>>

Ignored == Outcome(windows, <<>>, FALSE, FALSE)

\* lift a WindowState outcome to the registry
InWindow(w, o) == Outcome([windows EXCEPT ![w] = o.ws], o.calls, o.err, o.panic)

\* resumed that prints the help before it creates the window
resumed_help_first(create_ok, inner_size, surface_ok, resize_ok) ==
    /\ Running
    /\ LET w == created + 1
           o == create_window(windows, context, w, create_ok, inner_size,
                              surface_ok, resize_ok)
       IN  /\ ev' = Event("Resumed", w, inner_size)
           /\ windows' = o.ws
           /\ \E monitor \in AvailableMonitors :
                 calls' = dump_monitors(monitor)
                             \o << Call("print_help", 0, "-", "Ok") >> \o o.calls
           /\ status' = IF o.panic \/ o.err THEN "panicked" ELSE status
           /\ created' = IF create_ok THEN w ELSE created
    /\ UNCHANGED <<context, exit_requested, platform, proxy>>

resumed(create_ok, inner_size, surface_ok, resize_ok) ==
    /\ Running
    /\ LET w == created + 1
           o == create_window(windows, context, w, create_ok, inner_size,
                              surface_ok, resize_ok)
       IN  /\ ev' = Event("Resumed", w, inner_size)
           /\ windows' = o.ws
           /\ \E monitor \in AvailableMonitors :
                 calls' = dump_monitors(monitor) \o o.calls
                             \o IF o.panic \/ o.err THEN <<>>
                                ELSE << Call("print_help", 0, "-", "Ok") >>
           /\ status' = IF o.panic \/ o.err THEN "panicked" ELSE status
           /\ created' = IF create_ok THEN w ELSE created
    /\ UNCHANGED <<context, exit_requested, platform, proxy>>

\* resumed delivered by a host that signals readiness again after exiting: the
\* same handler, run when the loop has exited and the context is released
resumed_after_exiting(create_ok, inner_size, surface_ok, resize_ok) ==
    /\ status = "exited"
    /\ LET w == created + 1
           o == create_window(windows, context, w, create_ok, inner_size,
                              surface_ok, resize_ok)
       IN  /\ ev' = Event("Resumed", w, inner_size)
           /\ windows' = o.ws
           /\ \E monitor \in AvailableMonitors :
                 calls' = dump_monitors(monitor) \o o.calls
                             \o IF o.panic \/ o.err THEN <<>>
                                ELSE << Call("print_help", 0, "-", "Ok") >>
           /\ status' = IF o.panic \/ o.err THEN "panicked" ELSE status
           /\ created' = IF create_ok THEN w ELSE created
    /\ UNCHANGED <<context, exit_requested, platform, proxy>>

\* one iteration of the loop of the wake-up thread: send_event, whose result
\* is discarded, then sleep.  While the event loop runs the send succeeds and
\* the host delivers the WakeUp later, as a user_event; once the loop is gone
\* the send answers EventLoopClosed.  The thread has no exit: the action is
\* enabled in every state.
wake_up ==
    /\ proxy' = IF status = "running" THEN proxy ELSE "Closed"
    /\ UNCHANGED <<windows, context, created, exit_requested, status, platform,
                   ev, calls>>

\* user_event that resets the cursor position of every window
user_event_reset ==
    /\ Delivering
    /\ Handled(Event("UserEvent", 0, "WakeUp"),
               Outcome([x \in DOMAIN windows |-> cursor_left(windows[x])],
                       <<>>, FALSE, FALSE))

\* the host delivers a WakeUp that the thread sent
user_event ==
    /\ Delivering
    /\ Handled(Event("UserEvent", 0, "WakeUp"), Ignored)

device_event ==
    /\ Delivering
    /\ Handled(Event("DeviceEvent", 0, "-"), Ignored)

window_event_Resized(w, size, resize_ok) ==
    /\ Delivering
    /\ Handled(Event("Resized", w, size),
               IF w \notin DOMAIN windows THEN Ignored
               ELSE InWindow(w, resize(windows[w], w, size, resize_ok)))

\* the RedrawRequested arm with the draw error unwrapped instead of logged
window_event_RedrawRequested_unwrap(w, buffer_ok, present_ok) ==
    /\ Delivering
    /\ LET o == IF w \notin DOMAIN windows THEN Ignored
                ELSE InWindow(w, draw(windows[w], w, buffer_ok, present_ok))
       IN  Handled(Event("RedrawRequested", w, "-"),
                   Outcome(o.ws, o.calls, o.err, o.err))

window_event_RedrawRequested(w, buffer_ok, present_ok) ==
    /\ Delivering
    /\ Handled(Event("RedrawRequested", w, "-"),
               IF w \notin DOMAIN windows THEN Ignored
               ELSE InWindow(w, draw(windows[w], w, buffer_ok, present_ok)))

\* the Occluded arm that registers a WindowState for an unknown identifier
window_event_Occluded_insert(w, occluded) ==
    /\ Delivering
    /\ Handled(Event("Occluded", w, occluded),
               IF w \notin DOMAIN windows
               THEN Outcome([x \in DOMAIN windows \cup {w} |->
                                IF x = w
                                THEN [WindowState(Unsized) EXCEPT !.occluded = occluded]
                                ELSE windows[x]],
                            <<>>, FALSE, FALSE)
               ELSE InWindow(w, set_occluded(windows[w], w, occluded)))

window_event_Occluded(w, occluded) ==
    /\ Delivering
    /\ Handled(Event("Occluded", w, occluded),
               IF w \notin DOMAIN windows THEN Ignored
               ELSE InWindow(w, set_occluded(windows[w], w, occluded)))

window_event_CloseRequested(w) ==
    /\ Delivering
    /\ Handled(Event("CloseRequested", w, "-"),
               IF w \notin DOMAIN windows THEN Ignored
               ELSE Outcome(Remove(windows, w), <<>>, FALSE, FALSE))

\* the ModifiersChanged arm with one modifier set shared by all windows
window_event_ModifiersChanged_shared(w, modifiers) ==
    /\ Delivering
    /\ Handled(Event("ModifiersChanged", w, modifiers),
               IF w \notin DOMAIN windows THEN Ignored
               ELSE Outcome([x \in DOMAIN windows |->
                                [windows[x] EXCEPT !.modifiers = modifiers]],
                            <<>>, FALSE, FALSE))

window_event_ModifiersChanged(w, modifiers) ==
    /\ Delivering
    /\ Handled(Event("ModifiersChanged", w, modifiers),
               IF w \notin DOMAIN windows THEN Ignored
               ELSE Outcome([windows EXCEPT ![w].modifiers = modifiers],
                            <<>>, FALSE, FALSE))

\* keyboard_input that drops the window from the registry before it dispatches
keyboard_input_stale(wins, w, event, os, monitor) ==
    LET key      == to_uppercase(event.logical_key.text)
        mods     == wins[w].modifiers
        action   == process_key_binding(key, mods)
        resolved == << Call("process_key_binding", w, <<key, mods>>, action) >>
        h        == handle_action(Remove(wins, w), w, Unwrap(action), os, monitor)
    IN  IF ~event.pressed
        THEN Outcome(wins, <<>>, FALSE, FALSE)
        ELSE IF event.logical_key.kind /= "Character"
        THEN Outcome(wins, <<>>, FALSE, FALSE)
        ELSE IF ~IsSome(action)
        THEN Outcome(wins, resolved, FALSE, FALSE)
        ELSE Outcome(h.ws, resolved \o h.calls, FALSE, h.panic)

\* keyboard_input that resolves the key as typed, without to_uppercase
keyboard_input_exact(wins, w, event, os, monitor) ==
    LET key      == event.logical_key.text
        mods     == wins[w].modifiers
        action   == process_key_binding(key, mods)
        resolved == << Call("process_key_binding", w, <<key, mods>>, action) >>
        h        == handle_action(wins, w, Unwrap(action), os, monitor)
    IN  IF ~event.pressed
        THEN Outcome(wins, <<>>, FALSE, FALSE)
        ELSE IF event.logical_key.kind /= "Character"
        THEN Outcome(wins, <<>>, FALSE, FALSE)
        ELSE IF ~IsSome(action)
        THEN Outcome(wins, resolved, FALSE, FALSE)
        ELSE Outcome(h.ws, resolved \o h.calls, FALSE, h.panic)

\* the KeyboardInput arm for a registered window: the key is resolved against
\* the window's modifiers and a resulting action is dispatched
keyboard_input(wins, w, event, os, monitor) ==
    LET key      == to_uppercase(event.logical_key.text)
        mods     == wins[w].modifiers
        action   == process_key_binding(key, mods)
        resolved == << Call("process_key_binding", w, <<key, mods>>, action) >>
        h        == handle_action(wins, w, Unwrap(action), os, monitor)
    IN  IF ~event.pressed
        THEN Outcome(wins, <<>>, FALSE, FALSE)
        ELSE IF event.logical_key.kind /= "Character"
        THEN Outcome(wins, <<>>, FALSE, FALSE)
        ELSE IF ~IsSome(action)
        THEN Outcome(wins, resolved, FALSE, FALSE)
        ELSE Outcome(h.ws, resolved \o h.calls, FALSE, h.panic)

\* the KeyboardInput arm without the is_synthetic: false pattern
window_event_KeyboardInput_synthetic(w, event, monitor) ==
    /\ Delivering
    /\ Handled(Event("KeyboardInput", w, event),
               IF w \notin DOMAIN windows THEN Ignored
               ELSE keyboard_input(windows, w, event, platform, monitor))

window_event_KeyboardInput(w, event, monitor) ==
    /\ Delivering
    /\ Handled(Event("KeyboardInput", w, event),
               IF w \notin DOMAIN windows THEN Ignored
               ELSE IF event.is_synthetic THEN Ignored
               ELSE keyboard_input(windows, w, event, platform, monitor))

window_event_CursorLeft(w) ==
    /\ Delivering
    /\ Handled(Event("CursorLeft", w, "-"),
               IF w \notin DOMAIN windows THEN Ignored
               ELSE Outcome([windows EXCEPT ![w] = cursor_left(@)], <<>>, FALSE, FALSE))

window_event_CursorMoved(w, position) ==
    /\ Delivering
    /\ Handled(Event("CursorMoved", w, position),
               IF w \notin DOMAIN windows THEN Ignored
               ELSE Outcome([windows EXCEPT ![w] = cursor_moved(@, position)],
                            <<>>, FALSE, FALSE))

\* any other WindowEvent (Focused, Moved, Destroyed, ...)
window_event_Other(w) ==
    /\ Delivering
    /\ Handled(Event("Other", w, "-"), Ignored)

\* about_to_wait that never requests exit
about_to_wait_never ==
    /\ Delivering
    /\ ev' = Event("AboutToWait", 0, "-")
    /\ calls' = <<>>
    /\ UNCHANGED <<windows, context, created, exit_requested, status, platform, proxy>>

\* about_to_wait that requests exit whatever the registry holds
about_to_wait_always ==
    /\ Delivering
    /\ ev' = Event("AboutToWait", 0, "-")
    /\ exit_requested' = TRUE
    /\ calls' = << Call("exit", 0, "-", "Ok") >>
    /\ UNCHANGED <<windows, context, created, status, platform, proxy>>

about_to_wait ==
    /\ Delivering
    /\ ev' = Event("AboutToWait", 0, "-")
    /\ exit_requested' = (DOMAIN windows = {})
    /\ calls' = IF DOMAIN windows = {} THEN << Call("exit", 0, "-", "Ok") >> ELSE <<>>
    /\ UNCHANGED <<windows, context, created, status, platform, proxy>>

\* exiting that keeps the context
exiting_keep ==
    /\ status = "running"
    /\ exit_requested
    /\ ev' = Event("Exiting", 0, "-")
    /\ status' = "exited"
    /\ calls' = <<>>
    /\ UNCHANGED <<windows, context, created, exit_requested, platform, proxy>>

\* the host calls exiting once, after exit was requested, and then stops the loop
exiting ==
    /\ status = "running"
    /\ exit_requested
    /\ ev' = Event("Exiting", 0, "-")
    /\ context' = "None"
    /\ status' = "exited"
    /\ calls' = <<>>
    /\ UNCHANGED <<windows, created, exit_requested, platform, proxy>>

----------------------------------------------------------------------------
(* Inputs the host can deliver *)

VideoMode(width, height, refresh, bits) ==
    [width |-> width, height |-> height, refresh |-> refresh, bits |-> bits]

KeyEvents(texts, names, synthetic, pressed) ==
    {KeyEvent(k, s, p) :
        k \in {Character(t) : t \in texts} \cup {Named(n) : n \in names},
        s \in synthetic, p \in pressed}

\* The inputs of one specification: window ids, target platforms,
\* collaborator results, and the payloads of the events
Inputs(ids, platforms, oks, sizes, mods, keys, positions, monitors) ==
    [ ids |-> ids, platforms |-> platforms, oks |-> oks, sizes |-> sizes,
      mods |-> mods, keys |-> keys, positions |-> positions, monitors |-> monitors ]

InitOver(D) ==
    /\ windows = <<>>
    /\ context = "Some"
    /\ created = 0
    /\ exit_requested = FALSE
    /\ status = "running"
    /\ platform \in D.platforms
    /\ ev = Event("Init", 0, "-")
    /\ calls = <<>>
    /\ proxy = "Open"

NextOver(D) ==
    \/ \E c \in D.oks, s \in D.sizes, so \in D.oks, ro \in D.oks :
           created + 1 \in D.ids /\ resumed(c, s, so, ro)
    \/ wake_up
    \/ user_event
    \/ device_event
    \/ \E w \in D.ids, s \in D.sizes, ro \in D.oks : window_event_Resized(w, s, ro)
    \/ \E w \in D.ids, b \in D.oks, p \in D.oks :
           window_event_RedrawRequested(w, b, p)
    \/ \E w \in D.ids, o \in BOOLEAN : window_event_Occluded(w, o)
    \/ \E w \in D.ids : window_event_CloseRequested(w)
    \/ \E w \in D.ids, m \in D.mods : window_event_ModifiersChanged(w, m)
    \/ \E w \in D.ids, e \in D.keys, m \in D.monitors :
           window_event_KeyboardInput(w, e, m)
    \/ \E w \in D.ids : window_event_CursorLeft(w)
    \/ \E w \in D.ids, p \in D.positions : window_event_CursorMoved(w, p)
    \/ \E w \in D.ids : window_event_Other(w)
    \/ about_to_wait
    \/ exiting

TwoModes == << VideoMode(1, 1, 60, 32), VideoMode(2, 1, 60, 32) >>

Pressed(texts) == KeyEvents(texts, {}, {FALSE}, {TRUE})

\* Several windows, every handler, failing collaborators, small payloads
LifecycleInputs ==
    Inputs(WindowIds, {"linux"}, BOOLEAN,
           {<<1, 1>>},
           {{}, {CONTROL}},
           Pressed({<<"q">>, <<"f">>, <<"x">>}),
           {<<0, 0>>},
           {Some(TwoModes)})

Init == InitOver(LifecycleInputs)
Next == NextOver(LifecycleInputs)
Spec == Init /\ [][Next]_vars

\* Several windows that are created, used and closed, with collaborators that
\* do not fail.  The wake-up thread sends once a second and each WakeUp makes
\* the loop cycle, so the host does not postpone the idle check for ever; it
\* calls exiting once exit was requested.
LiveInputs ==
    Inputs(WindowIds, {"linux"}, {TRUE},
           {<<1, 1>>},
           {{CONTROL}},
           Pressed({<<"q">>}),
           {<<0, 0>>},
           {Some(TwoModes)})

InitLive == InitOver(LiveInputs)
NextLive == NextOver(LiveInputs)
SpecLive ==
    /\ InitLive
    /\ [][NextLive]_vars
    /\ WF_vars(wake_up)
    /\ WF_vars(about_to_wait)
    /\ WF_vars(exiting)

\* One window, every modifier set, many keys
Chars == {"q", "Q", "f", "F", "x", "1", "ß"}
Texts == {<<c>> : c \in Chars} \cup {<<"q", "q">>, <<"Q", "F">>, <<"f", "Q">>}

KeysInputs ==
    Inputs({1}, {"linux", "windows"}, {TRUE},
           {<<1, 1>>},
           ModifiersState,
           KeyEvents(Texts, {"Enter", "Q"}, BOOLEAN, BOOLEAN),
           {<<0, 0>>},
           {Some(TwoModes)})

InitKeys == InitOver(KeysInputs)
NextKeys == NextOver(KeysInputs)
SpecKeys == InitKeys /\ [][NextKeys]_vars

\* One window, every physical size, failing collaborators
Sizes == (0..MaxDim) \X (0..MaxDim)

SurfaceInputs ==
    Inputs({1}, {"linux"}, BOOLEAN,
           Sizes,
           {{}, {CONTROL}},
           Pressed({<<"q">>, <<"x">>}),
           {<<0, 0>>, <<1, 2>>},
           {Some(TwoModes)})

InitSurface == InitOver(SurfaceInputs)
NextSurface == NextOver(SurfaceInputs)
SpecSurface == InitSurface /\ [][NextSurface]_vars

\* One window, every physical size, failing collaborators, and a host that
\* may deliver resumed once more after exiting
NextLate ==
    \/ NextSurface
    \/ \E c \in SurfaceInputs.oks, s \in SurfaceInputs.sizes,
          so \in SurfaceInputs.oks, ro \in SurfaceInputs.oks :
           resumed_after_exiting(c, s, so, ro)

SpecLate == InitSurface /\ [][NextLate]_vars

\* One window, both platforms, every answer of Window::current_monitor
Monitors ==
    { None,
      Some(<<>>),
      Some(TwoModes),
      Some(<< VideoMode(2, 1, 60, 32), VideoMode(1, 2, 60, 32),
              VideoMode(2, 1, 30, 32), VideoMode(2, 1, 60, 16) >>) }

FullscreenInputs ==
    Inputs({1}, {"linux", "windows"}, {TRUE},
           {<<1, 1>>},
           {{}, {CONTROL}},
           Pressed({<<"f">>, <<"F">>, <<"q">>}),
           {<<0, 0>>},
           Monitors)

InitFullscreen == InitOver(FullscreenInputs)
NextFullscreen == NextOver(FullscreenInputs)
SpecFullscreen == InitFullscreen /\ [][NextFullscreen]_vars

----------------------------------------------------------------------------
(* Properties *)

\* the calls of cs named name on window w
CallsOf(cs, name, w) == {i \in DOMAIN cs : cs[i].call = name /\ cs[i].win = w}

CountCalls(cs, name, w) == Cardinality(CallsOf(cs, name, w))

\* the calls of cs named name on window w that answered res
Answered(cs, name, w, res) == \E i \in CallsOf(cs, name, w) : cs[i].res = res

\* handle_action(w, action) was invoked
Dispatched(cs, w, action) ==
    \E i \in CallsOf(cs, "handle_action", w) : cs[i].arg = <<action>>

\* the event of the handler that ran last is a window event op for window w
IsEvent(e, op, w) == e.op = op /\ e.win = w

\* a key event that passes the filters of the KeyboardInput arm
IsTyped(e) ==
    ~e.is_synthetic /\ e.pressed /\ e.logical_key.kind = "Character"

\* The declared table, written out
Declared(key, mods) ==
    IF key = <<"Q">> /\ mods = {CONTROL} THEN Some(CloseWindow)
    ELSE IF key = <<"F">> /\ mods = {CONTROL} THEN Some(ToggleFullscreen)
    ELSE None

\* C1: every resolution of a (key string, modifier set) pair returns the action
\* of the declared binding with exactly that trigger and exactly that modifier
\* set ("Q"+Ctrl -> CloseWindow, "F"+Ctrl -> ToggleFullscreen), and no action
\* for every other pair; a Ctrl binding does not fire under Ctrl+Shift.
\* This is stated of every resolution a handler makes: the key strings are the
\* uppercased forms of the typed ones, under every modifier set.
C1_BindingResolution ==
    \A i \in DOMAIN calls :
        calls[i].call = "process_key_binding" =>
            calls[i].res = Declared(calls[i].arg[1][1], calls[i].arg[1][2])

\* "Q" was resolved under Ctrl+Shift and gave no action
C1_Witness ==
    \E i \in DOMAIN calls :
        /\ calls[i].call = "process_key_binding"
        /\ calls[i].arg = << <<(<<"Q">>), {CONTROL, SHIFT}>> >>
        /\ calls[i].res = None

\* C2: a typed "q" and a typed "Q" in a window whose modifier set is exactly
\* Ctrl both dispatch CloseWindow; a typed "f" and a typed "F" both dispatch
\* ToggleFullscreen.
C2_CaseInsensitive ==
    [][\A w \in DOMAIN windows :
          ( /\ IsEvent(ev', "KeyboardInput", w)
            /\ IsTyped(ev'.arg[1])
            /\ windows[w].modifiers = {CONTROL} ) =>
              LET text == ev'.arg[1].logical_key.text
              IN  /\ text \in {<<"q">>, <<"Q">>} => Dispatched(calls', w, CloseWindow)
                  /\ text \in {<<"f">>, <<"F">>} => Dispatched(calls', w, ToggleFullscreen)
      ]_vars

\* a lowercase "q" was typed and CloseWindow was dispatched
C2_Witness ==
    /\ ev.op = "KeyboardInput"
    /\ ev.arg[1].logical_key.text = <<"q">>
    /\ Dispatched(calls, ev.win, CloseWindow)

\* C3 as claimed: a Resized event with a zero dimension leaves the surface
\* geometry and requests no redraw; with both dimensions positive the geometry
\* becomes the new size and exactly one redraw is requested.
C3_ResizeAsClaimed ==
    [][\A w \in DOMAIN windows :
          IsEvent(ev', "Resized", w) =>
              LET size == ev'.arg[1]
              IN  IF size[1] = 0 \/ size[2] = 0
                  THEN /\ windows'[w].surface = windows[w].surface
                       /\ CountCalls(calls', "request_redraw", w) = 0
                  ELSE /\ windows'[w].surface = size
                       /\ CountCalls(calls', "request_redraw", w) = 1
      ]_vars

\* C3: a Resized event with a zero dimension leaves the surface geometry and
\* requests no redraw; with both dimensions positive, if the surface accepts
\* the resize the geometry becomes the new size and exactly one redraw is
\* requested, and if the surface refuses it the handler panics with the
\* geometry as it was and no redraw requested.
C3_Resize ==
    [][\A w \in DOMAIN windows :
          IsEvent(ev', "Resized", w) =>
              LET size == ev'.arg[1]
              IN  IF size[1] = 0 \/ size[2] = 0
                  THEN /\ windows'[w].surface = windows[w].surface
                       /\ CountCalls(calls', "request_redraw", w) = 0
                       /\ CountCalls(calls', "surface_resize", w) = 0
                       /\ status' = status
                  ELSE IF Answered(calls', "surface_resize", w, "Ok")
                  THEN /\ windows'[w].surface = size
                       /\ CountCalls(calls', "request_redraw", w) = 1
                       /\ status' = status
                  ELSE /\ windows'[w].surface = windows[w].surface
                       /\ CountCalls(calls', "request_redraw", w) = 0
                       /\ status' = "panicked"
      ]_vars

\* a Resized event with a zero width was ignored by a surface that has a geometry
C3_Witness ==
    /\ ev.op = "Resized"
    /\ ev.win \in DOMAIN windows
    /\ ev.arg[1][1] = 0
    /\ windows[ev.win].surface /= Unsized
    /\ calls = <<>>

\* C4 as claimed: a redraw of an occluded window presents nothing and gives no
\* pre-present notification; a redraw of a visible window presents exactly once.
C4_DrawAsClaimed ==
    \A w \in DOMAIN windows :
        IsEvent(ev, "RedrawRequested", w) =>
            IF windows[w].occluded
            THEN /\ CountCalls(calls, "present", w) = 0
                 /\ CountCalls(calls, "pre_present_notify", w) = 0
            ELSE CountCalls(calls, "present", w) = 1

\* C4: a redraw of an occluded window presents nothing and gives no
\* pre-present notification; a redraw of a visible window presents exactly
\* once when the buffer is acquired and not at all when acquiring it fails.
C4_Draw ==
    \A w \in DOMAIN windows :
        IsEvent(ev, "RedrawRequested", w) =>
            IF windows[w].occluded
            THEN /\ CountCalls(calls, "present", w) = 0
                 /\ CountCalls(calls, "pre_present_notify", w) = 0
            ELSE IF Answered(calls, "buffer_mut", w, "Ok")
            THEN CountCalls(calls, "present", w) = 1
            ELSE /\ Answered(calls, "buffer_mut", w, "Err")
                 /\ CountCalls(calls, "present", w) = 0

\* an occluded window was asked to redraw and presented nothing
C4_Witness ==
    /\ ev.op = "RedrawRequested"
    /\ ev.win \in DOMAIN windows
    /\ windows[ev.win].occluded
    /\ calls = <<>>

\* C5: when Occluded(true) is directly followed by Occluded(false) on the same
\* window, the first call requests no redraw and the second requests exactly
\* one, so exactly one is requested in total.
C5_OccludedThenVisible ==
    [][\A w \in DOMAIN windows :
          ( /\ IsEvent(ev, "Occluded", w) /\ ev.arg[1] = TRUE
            /\ IsEvent(ev', "Occluded", w) /\ ev'.arg[1] = FALSE ) =>
              /\ CountCalls(calls, "request_redraw", w) = 0
              /\ CountCalls(calls', "request_redraw", w) = 1
              /\ CountCalls(calls, "request_redraw", w)
                    + CountCalls(calls', "request_redraw", w) = 1
      ]_vars

\* Occluded(false) was handled for a registered window and requested one redraw
C5_Witness ==
    /\ ev.op = "Occluded"
    /\ ev.win \in DOMAIN windows
    /\ ev.arg[1] = FALSE
    /\ CountCalls(calls, "request_redraw", ev.win) = 1

\* C6: when a ToggleFullscreen that took a windowed window to a fullscreen
\* mode is directly followed by a second ToggleFullscreen on the same window,
\* the second sets windowed mode and the window is windowed afterwards.
C6_ToggleTwice ==
    [][\A w \in DOMAIN windows :
          ( /\ Dispatched(calls, w, ToggleFullscreen)
            /\ windows[w].fullscreen.kind /= "None"
            /\ Dispatched(calls', w, ToggleFullscreen) ) =>
              /\ w \in DOMAIN windows'
              /\ windows'[w].fullscreen = NoFullscreen
              /\ \E i \in CallsOf(calls', "set_fullscreen", w) :
                     calls'[i].arg = <<NoFullscreen>>
      ]_vars

\* C7: an idle check requests termination of the event loop if and only if
\* the registry is empty at that moment.
C7_IdleExit ==
    ev.op = "AboutToWait" =>
        /\ Answered(calls, "exit", 0, "Ok") <=> (DOMAIN windows = {})
        /\ exit_requested <=> (DOMAIN windows = {})

\* every window the host created was closed and the idle check requested exit
C7_Witness ==
    /\ ev.op = "AboutToWait"
    /\ created = MaxWindows
    /\ DOMAIN windows = {}
    /\ Answered(calls, "exit", 0, "Ok")

\* C8: with windows a and b registered, a typed Ctrl+Q in window a removes
\* a's WindowState and nothing else: b stays registered with its modifier
\* set, cursor position, occluded flag, surface geometry and fullscreen mode
\* as they were, and no collaborator call is made on b.
C8_CloseOnlyTarget ==
    [][\A a \in DOMAIN windows : \A b \in DOMAIN windows \ {a} :
          ( /\ IsEvent(ev', "KeyboardInput", a)
            /\ IsTyped(ev'.arg[1])
            /\ ev'.arg[1].logical_key.text \in {<<"q">>, <<"Q">>}
            /\ windows[a].modifiers = {CONTROL} ) =>
              /\ DOMAIN windows' = DOMAIN windows \ {a}
              /\ windows'[b] = windows[b]
              /\ \A i \in DOMAIN calls' : calls'[i].win /= b
              /\ status' = status
      ]_vars

\* Ctrl+Q closed one window while another one, occluded, fullscreen, with a
\* cursor position and with Ctrl held, stayed registered
C8_Witness ==
    /\ ev.op = "KeyboardInput"
    /\ Dispatched(calls, ev.win, CloseWindow)
    /\ ev.win \notin DOMAIN windows
    /\ \E b \in DOMAIN windows :
          /\ windows[b].occluded
          /\ windows[b].modifiers = {CONTROL}
          /\ IsSome(windows[b].cursor_position)
          /\ windows[b].fullscreen.kind /= "None"

\* the key strings and modifier sets that the declared bindings answer to
Bound(text, mods) ==
    mods = {CONTROL} /\ text \in {<<"q">>, <<"Q">>, <<"f">>, <<"F">>}

\* C9: a keyboard event for a registered window dispatches an action if and
\* only if it is not synthetic, is a press, carries a character key, and the
\* uppercased character with the window's modifier set is a declared binding;
\* otherwise nothing is dispatched and the registry is unchanged.
C9_DispatchFilter ==
    [][\A w \in DOMAIN windows :
          IsEvent(ev', "KeyboardInput", w) =>
              LET e     == ev'.arg[1]
                  fires == IsTyped(e) /\ Bound(e.logical_key.text, windows[w].modifiers)
              IN  /\ fires <=> (\E a \in Action : Dispatched(calls', w, a))
                  /\ ~fires => /\ windows' = windows
                               /\ CallsOf(calls', "handle_action", w) = {}
                               /\ status' = status
      ]_vars

\* a synthetic press of "Q" arrived with Ctrl held and nothing was dispatched
C9_Witness ==
    /\ ev.op = "KeyboardInput"
    /\ ev.win \in DOMAIN windows
    /\ ev.arg[1].is_synthetic
    /\ ev.arg[1].pressed
    /\ ev.arg[1].logical_key = Character(<<"Q">>)
    /\ windows[ev.win].modifiers = {CONTROL}
    /\ calls = <<>>

\* C10: the presentation context is present at construction, changes only
\* on the exiting transition, which releases it, and once absent stays absent.
\* The exiting transition is the step that ends the running loop with the
\* Exiting event; the wake-up thread may still step after it.
C10_ContextLifetime ==
    /\ context = "Some"
    /\ [][ LET exits == status = "running" /\ ev'.op = "Exiting"
           IN  /\ context = "None" => context' = "None"
               /\ exits => context = "Some" /\ context' = "None"
               /\ ~exits => context' = context
         ]_vars

\* the loop exited after a window was created and closed, and the context is gone
C10_Witness ==
    /\ ev.op = "Exiting"
    /\ status = "exited"
    /\ created > 0
    /\ context = "None"

\* C11: a presentation failure during a redraw event is contained to that draw
\* call: the window stays registered with its modifier set, cursor position,
\* occluded flag and surface geometry as they were and the handler returns
\* without failing; and the redraw event that directly follows on that window
\* acquires the buffer again and, when it gets it, attempts exactly one
\* presentation.
C11_PresentFailureContained ==
    [][\A w \in DOMAIN windows :
          /\ ( /\ IsEvent(ev', "RedrawRequested", w)
               /\ Answered(calls', "present", w, "Err") ) =>
                  /\ w \in DOMAIN windows'
                  /\ windows' = windows
                  /\ status' = status
                  /\ exit_requested' = exit_requested
          /\ ( /\ IsEvent(ev, "RedrawRequested", w)
               /\ Answered(calls, "present", w, "Err")
               /\ IsEvent(ev', "RedrawRequested", w) ) =>
                  /\ CountCalls(calls', "buffer_mut", w) = 1
                  /\ Answered(calls', "buffer_mut", w, "Ok") =>
                        CountCalls(calls', "present", w) = 1
      ]_vars

\* a presentation failed on a window that has a geometry, a cursor position
\* and Ctrl held, and the application is still running
C11_Witness ==
    /\ ev.op = "RedrawRequested"
    /\ ev.win \in DOMAIN windows
    /\ Answered(calls, "present", ev.win, "Err")
    /\ status = "running"
    /\ windows[ev.win].surface /= Unsized
    /\ windows[ev.win].modifiers = {CONTROL}
    /\ IsSome(windows[ev.win].cursor_position)

\* C12: once the initial window has been created, no failure of a collaborator
\* operation ends the process: every handler other than resumed returns with
\* the application still running, whatever the surface, the presentation and
\* the monitor queries answer.
C12_SteadyStateContained ==
    [][(created > 0 /\ status = "running" /\ ev'.op \notin {"Resumed", "Exiting"}) =>
          status' = "running"
      ]_vars

\* C13 as claimed: right after a window is created its surface geometry equals
\* the physical size the host reports for it, for every size the host can
\* report; thereafter the geometry changes only on a Resized event with both
\* dimensions positive, to the size of that event.
C13_SizedAtCreationAsClaimed ==
    [][\A w \in DOMAIN windows' :
          /\ (IsEvent(ev', "Resumed", w) /\ w \notin DOMAIN windows) =>
                windows'[w].surface = ev'.arg[1]
          /\ w \in DOMAIN windows =>
                windows'[w].surface =
                    IF /\ IsEvent(ev', "Resized", w)
                       /\ ev'.arg[1][1] > 0 /\ ev'.arg[1][2] > 0
                       /\ status' = "running"
                    THEN ev'.arg[1]
                    ELSE windows[w].surface
      ]_vars

\* C13: right after a window is created its surface geometry equals the
\* physical size the host reports for it when both dimensions of that size are
\* positive, and the surface has no geometry when one of them is zero;
\* thereafter the geometry changes only on a Resized event with both
\* dimensions positive that the surface accepts, to the size of that event, so
\* that it is the most recent such size (or still none).
C13_SizedAtCreation ==
    [][\A w \in DOMAIN windows' :
          /\ (IsEvent(ev', "Resumed", w) /\ w \notin DOMAIN windows) =>
                windows'[w].surface =
                    IF ev'.arg[1][1] > 0 /\ ev'.arg[1][2] > 0
                    THEN ev'.arg[1]
                    ELSE Unsized
          /\ w \in DOMAIN windows =>
                windows'[w].surface =
                    IF /\ IsEvent(ev', "Resized", w)
                       /\ ev'.arg[1][1] > 0 /\ ev'.arg[1][2] > 0
                       /\ status' = "running"
                    THEN ev'.arg[1]
                    ELSE windows[w].surface
      ]_vars

\* a window was created while the host reported a size with a zero height, and
\* its surface has no geometry
C13_Witness ==
    /\ ev.op = "Resumed"
    /\ ev.win \in DOMAIN windows
    /\ ev.arg[1][1] > 0
    /\ ev.arg[1][2] = 0
    /\ windows[ev.win].surface = Unsized
    /\ status = "running"

\* C14 as claimed: an Occluded(flag) event sets the occluded flag of its window
\* to flag and requests a redraw exactly when it takes the window from
\* occluded to visible; Occluded(false) on a window that is already visible,
\* and every Occluded(true), request no redraw.
C14_SetOccludedAsClaimed ==
    [][\A w \in DOMAIN windows :
          IsEvent(ev', "Occluded", w) =>
              /\ windows'[w].occluded = ev'.arg[1]
              /\ CountCalls(calls', "request_redraw", w) =
                    IF windows[w].occluded /\ ~ev'.arg[1] THEN 1 ELSE 0
      ]_vars

\* C14: an Occluded(flag) event sets the occluded flag of its window to flag
\* and changes nothing else of it; it requests exactly one redraw when flag is
\* false, whether the window was occluded or already visible, and none when
\* flag is true.
C14_SetOccluded ==
    [][\A w \in DOMAIN windows :
          IsEvent(ev', "Occluded", w) =>
              /\ windows'[w] = [windows[w] EXCEPT !.occluded = ev'.arg[1]]
              /\ CountCalls(calls', "request_redraw", w) =
                    IF ~ev'.arg[1] THEN 1 ELSE 0
              /\ Len(calls') = CountCalls(calls', "request_redraw", w)
      ]_vars

\* Occluded(true) was handled for a window with a sized surface: the window is
\* occluded and nothing was requested
C14_Witness ==
    /\ ev.op = "Occluded"
    /\ ev.win \in DOMAIN windows
    /\ ev.arg[1] = TRUE
    /\ windows[ev.win].occluded
    /\ windows[ev.win].surface /= Unsized
    /\ calls = <<>>

\* C15: in a draw of a non-occluded window the pre-present notification comes
\* immediately before the presentation: every notification is directly
\* followed by a presentation attempt on the same window, every presentation
\* attempt is directly preceded by a notification on the same window, and when
\* acquiring the buffer fails there is neither a notification nor a
\* presentation and draw returns an error.
C15_NotifyBeforePresent ==
    /\ \A i \in DOMAIN calls :
          calls[i].call = "pre_present_notify" =>
              /\ i + 1 \in DOMAIN calls
              /\ calls[i + 1].call = "present"
              /\ calls[i + 1].win = calls[i].win
    /\ \A i \in DOMAIN calls :
          calls[i].call = "present" =>
              /\ i - 1 \in DOMAIN calls
              /\ calls[i - 1].call = "pre_present_notify"
              /\ calls[i - 1].win = calls[i].win
    /\ \A w \in DOMAIN windows :
          (IsEvent(ev, "RedrawRequested", w) /\ ~windows[w].occluded) =>
              /\ CountCalls(calls, "buffer_mut", w) = 1
              /\ Answered(calls, "buffer_mut", w, "Err") =>
                    /\ CountCalls(calls, "pre_present_notify", w) = 0
                    /\ CountCalls(calls, "present", w) = 0
                    /\ \A p \in BOOLEAN :
                          /\ draw(windows[w], w, FALSE, p).calls = calls
                          /\ draw(windows[w], w, FALSE, p).err
              /\ Answered(calls, "buffer_mut", w, "Ok") =>
                    /\ CountCalls(calls, "pre_present_notify", w) = 1
                    /\ CountCalls(calls, "present", w) = 1

\* a visible window was drawn: the buffer was acquired, the window notified,
\* and the buffer presented, in this order
C15_Witness ==
    /\ ev.op = "RedrawRequested"
    /\ ev.win \in DOMAIN windows
    /\ Len(calls) = 3
    /\ calls[1].call = "buffer_mut"
    /\ calls[2].call = "pre_present_notify"
    /\ calls[3].call = "present"
    /\ calls[3].res = "Ok"

\* C16: a ToggleFullscreen dispatched on a window that is fullscreen sets the
\* window to windowed mode, on both platforms and whatever the host answers
\* for the current monitor and its video modes: the handler returns, the
\* window is windowed afterwards and set_fullscreen(None) was called.
C16_ExitFullscreen ==
    [][\A w \in DOMAIN windows :
          ( /\ status = "running"
            /\ IsEvent(ev', "KeyboardInput", w)
            /\ Dispatched(calls', w, ToggleFullscreen)
            /\ windows[w].fullscreen.kind /= "None" ) =>
              /\ status' = "running"
              /\ windows'[w].fullscreen = NoFullscreen
              /\ CountCalls(calls', "set_fullscreen", w) = 1
              /\ \A i \in CallsOf(calls', "set_fullscreen", w) :
                     calls'[i].arg = <<NoFullscreen>>
      ]_vars

\* video mode a comes strictly before video mode b in the lexicographic order
\* on (width, height, refresh rate)
LexLess(a, b) ==
    \/ a.width < b.width
    \/ a.width = b.width /\ a.height < b.height
    \/ a.width = b.width /\ a.height = b.height /\ a.refresh < b.refresh

\* C17: when a window enters exclusive fullscreen, the video mode handed to
\* set_fullscreen is one of the modes the current monitor listed and is a
\* maximum of that list under the lexicographic order on (width, height,
\* refresh rate): no listed mode has a larger width, among the modes of that
\* width none has a larger height, and among those none has a larger refresh
\* rate.  On the platform without exclusive mode a window enters borderless
\* fullscreen.
C17_MaxVideoMode ==
    \A i \in DOMAIN calls :
        (calls[i].call = "set_fullscreen" /\ calls[i].arg[1].kind /= "None") =>
            IF platform = "windows"
            THEN /\ calls[i].arg[1].kind = "Exclusive"
                 /\ i > 1
                 /\ calls[i - 1].call = "video_modes"
                 /\ LET modes  == calls[i - 1].res
                        chosen == calls[i].arg[1].mode[1]
                    IN  /\ \E j \in DOMAIN modes : modes[j] = chosen
                        /\ \A j \in DOMAIN modes : ~LexLess(chosen, modes[j])
                        /\ \A j \in DOMAIN modes : modes[j].width <= chosen.width
                        /\ \A j \in DOMAIN modes :
                              modes[j].width = chosen.width =>
                                  modes[j].height <= chosen.height
                        /\ \A j \in DOMAIN modes :
                              ( /\ modes[j].width = chosen.width
                                /\ modes[j].height = chosen.height ) =>
                                  modes[j].refresh <= chosen.refresh
            ELSE calls[i].arg[1] = Borderless

\* a window entered exclusive fullscreen from a list in which the widest mode
\* is neither the first nor the tallest nor alone at its width
C17_Witness ==
    \E i \in DOMAIN calls :
        /\ calls[i].call = "set_fullscreen"
        /\ calls[i].arg[1].kind = "Exclusive"
        /\ calls[i].arg[1].mode[1].width = 2
        /\ calls[i].arg[1].mode[1].refresh = 60
        /\ i > 1
        /\ calls[i - 1].call = "video_modes"
        /\ Len(calls[i - 1].res) = 4
        /\ \E j \in DOMAIN calls[i - 1].res :
              calls[i - 1].res[j].height > calls[i].arg[1].mode[1].height
        /\ \E j \in DOMAIN calls[i - 1].res :
              /\ calls[i - 1].res[j].width = calls[i].arg[1].mode[1].width
              /\ calls[i - 1].res[j].refresh < calls[i].arg[1].mode[1].refresh

\* C18: whenever handle_action is invoked, its target window is registered, so
\* the lookup in handle_action does not fail: the invocation comes from the
\* keyboard arm of an event for that same window, which was found registered
\* when the handler started, and nothing removed it in between.
C18_ActionTargetRegistered ==
    [][\A i \in DOMAIN calls' :
          calls'[i].call = "handle_action" =>
              /\ ev'.op = "KeyboardInput"
              /\ ev'.win = calls'[i].win
              /\ calls'[i].win \in DOMAIN windows
              /\ calls'[i].res = "Ok"
      ]_vars

\* an action was dispatched on the second window after the first was closed
C18_Witness ==
    /\ ev.op = "KeyboardInput"
    /\ ev.win = 2
    /\ Dispatched(calls, 2, ToggleFullscreen)
    /\ DOMAIN windows = {2}
    /\ status = "running"

\* the positions in cs of the calls named name, on any window
Positions(cs, name) == {i \in DOMAIN cs : cs[i].call = name}

\* C19: every resumed dumps the monitors first, then asks the host for exactly
\* one window, and prints the key-binding help last.  When the creation
\* succeeds the registry grows by exactly the new window, registered not
\* occluded, without cursor position and with the empty modifier set, and every
\* other entry is as it was.  When the creation fails (the host refuses the
\* window, the surface cannot be made or sized) the process aborts, the
\* registry is as it was and the help is not printed.
C19_Resumed ==
    [][ev'.op = "Resumed" =>
          LET w == ev'.win
          IN  /\ Positions(calls', "dump_monitors") = {1}
              /\ Positions(calls', "create_window") = {2}
              /\ calls'[2].win = w
              /\ IF status' = "running"
                 THEN /\ w \notin DOMAIN windows
                      /\ DOMAIN windows' = DOMAIN windows \cup {w}
                      /\ ~windows'[w].occluded
                      /\ windows'[w].cursor_position = None
                      /\ windows'[w].modifiers = {}
                      /\ \A x \in DOMAIN windows : windows'[x] = windows[x]
                      /\ calls'[2].res = "Ok"
                      /\ Positions(calls', "print_help") = {Len(calls')}
                      /\ Len(calls') > 2
                 ELSE /\ status' = "panicked"
                      /\ windows' = windows
                      /\ Positions(calls', "print_help") = {}
      ]_vars

\* a second window was created next to one that is occluded, has Ctrl held
\* and a cursor position, and the help was printed last
C19_Witness ==
    /\ ev.op = "Resumed"
    /\ ev.win = 2
    /\ DOMAIN windows = {1, 2}
    /\ windows[1].occluded
    /\ windows[1].modifiers = {CONTROL}
    /\ IsSome(windows[1].cursor_position)
    /\ calls[Len(calls)].call = "print_help"
    /\ status = "running"

\* the state of the controller: the registry with every WindowState, the
\* presentation context, and the state of the loop
Controller == <<windows, context, created, exit_requested, status>>

\* C20: the wake-up thread shares no state with the controller.  The delivery
\* of a WakeUp leaves the registry, every WindowState and the presentation
\* context as they were and makes no collaborator call, and leaves the same
\* handlers deliverable, so that an event sequence reaches the same controller
\* state with and without wake-ups interleaved.  A step of the thread changes
\* nothing but what the thread has seen of its proxy: an injection that fails
\* after the loop has shut down is ignored.  The thread keeps running: its
\* next iteration is possible in every state.
C20_WakeUpIsolated ==
    /\ [](ENABLED wake_up)
    /\ [][ /\ ev'.op = "UserEvent" =>
                /\ Controller' = Controller
                /\ calls' = <<>>
                /\ proxy' = proxy
                /\ Delivering' = Delivering
           /\ proxy' /= proxy =>
                /\ Controller' = Controller
                /\ ev' = ev
                /\ calls' = calls
                /\ status /= "running"
                /\ proxy' = "Closed"
         ]_vars

\* the thread sent a WakeUp after the loop had exited with windows created and
\* closed, and the send failed
C20_Witness ==
    /\ proxy = "Closed"
    /\ status = "exited"
    /\ created > 0
    /\ context = "None"

\* C21: once the registry is empty after a window was created and closed,
\* termination of the loop is eventually requested, unless a further resumed
\* comes first (it registers a window again, or aborts the process); and once
\* termination is requested the exiting transition eventually releases the
\* presentation context.  This holds under weak fairness of the wake-up, the
\* idle check and the host's exiting call.
C21_EventuallyExits ==
    /\ (created > 0 /\ DOMAIN windows = {} /\ status = "running")
          ~> (exit_requested \/ DOMAIN windows /= {} \/ status = "panicked")
    /\ exit_requested ~> (status = "exited" /\ context = "None")

\* every window the host could create was closed, termination was requested
\* and the loop has exited with the context released
C21_Witness ==
    /\ status = "exited"
    /\ exit_requested
    /\ context = "None"
    /\ created = MaxWindows
    /\ DOMAIN windows = {}

\* C22: modifier tracking is per window.  A window is registered with the
\* empty modifier set; a ModifiersChanged event sets the modifier set of its
\* own window to the state it carries and leaves the set of every other
\* window; no other event changes a modifier set, so that a window's set is
\* the state of the most recent ModifiersChanged delivered to it.  A key press
\* in a window is resolved against the set that window tracked when the event
\* arrived.
C22_ModifiersPerWindow ==
    [][/\ \A w \in DOMAIN windows' :
             windows'[w].modifiers =
                 IF w \notin DOMAIN windows THEN {}
                 ELSE IF status = "running" /\ IsEvent(ev', "ModifiersChanged", w)
                 THEN ev'.arg[1]
                 ELSE windows[w].modifiers
       /\ \A i \in DOMAIN calls' :
             (status = "running" /\ calls'[i].call = "process_key_binding") =>
                 /\ ev'.op = "KeyboardInput"
                 /\ calls'[i].win = ev'.win
                 /\ ev'.win \in DOMAIN windows
                 /\ calls'[i].arg[1][2] = windows[ev'.win].modifiers
      ]_vars

\* "q" was typed in a window that holds no modifier while another window
\* holds Ctrl: it was resolved against the empty set and closed nothing
C22_Witness ==
    /\ ev.op = "KeyboardInput"
    /\ ev.win \in DOMAIN windows
    /\ windows[ev.win].modifiers = {}
    /\ Len(calls) = 1
    /\ calls[1].call = "process_key_binding"
    /\ calls[1].arg = << <<(<<"Q">>), {}>> >>
    /\ calls[1].res = None
    /\ \E b \in DOMAIN windows \ {ev.win} : windows[b].modifiers = {CONTROL}

\* the kinds of WindowEvent
WindowEventOps ==
    {"Resized", "RedrawRequested", "Occluded", "CloseRequested", "ModifiersChanged",
     "KeyboardInput", "CursorLeft", "CursorMoved", "Other"}

\* C23: a window event of any kind for an identifier that is not in the
\* registry, because it was never registered or was removed by CloseRequested
\* or by the CloseWindow action, changes nothing: the registry with every
\* WindowState and the presentation context are as they were, the loop keeps
\* running, and no collaborator call, key resolution or action dispatch is
\* made.  An identifier that was removed is never registered again, by any
\* event.
C23_UnregisteredNoOp ==
    [][/\ ( /\ status = "running"
            /\ ev'.op \in WindowEventOps
            /\ ev'.win \notin DOMAIN windows ) =>
               /\ windows' = windows
               /\ context' = context
               /\ status' = status
               /\ exit_requested' = exit_requested
               /\ created' = created
               /\ calls' = <<>>
       /\ \A w \in 1..created :
             w \notin DOMAIN windows => w \notin DOMAIN windows'
      ]_vars

\* a fullscreen toggle was typed for a window that had been closed, while
\* another window is registered: nothing was resolved or dispatched
C23_Witness ==
    /\ ev.op = "KeyboardInput"
    /\ ev.arg[1].logical_key.text = <<"f">>
    /\ ev.win \in 1..created
    /\ ev.win \notin DOMAIN windows
    /\ DOMAIN windows /= {}
    /\ calls = <<>>
    /\ status = "running"

\* C24: no WindowState is constructed while the presentation context is
\* absent.  A resumed that the host delivers while the loop runs finds the
\* context present; every surface is made from a present context; and a
\* resumed that comes after exiting, when the context is released, is a fatal
\* error: it makes no surface and registers nothing.
C24_NoWindowWithoutContext ==
    [][(ev'.op = "Resumed" /\ status /= "panicked") =>
          /\ status = "running" => context = "Some"
          /\ Positions(calls', "surface_new") /= {} => context = "Some"
          /\ DOMAIN windows' /= DOMAIN windows => context = "Some"
          /\ context = "None" =>
                /\ status' = "panicked"
                /\ windows' = windows
                /\ Positions(calls', "surface_new") = {}
                /\ Positions(calls', "print_help") = {}
      ]_vars

\* the host delivered resumed after exiting and created a window for it: the
\* handler aborted before making a surface, and no window is registered
C24_Witness ==
    /\ ev.op = "Resumed"
    /\ context = "None"
    /\ status = "panicked"
    /\ Answered(calls, "create_window", ev.win, "Ok")
    /\ Positions(calls, "surface_new") = {}
    /\ ev.win \notin DOMAIN windows

\* the number that a sequence of decimal digits denotes
RECURSIVE Number(_)
Number(ds) ==
    IF ds = <<>> THEN 0
    ELSE Number(SubSeq(ds, 1, Len(ds) - 1)) * 10
            + (CHOOSE d \in 0..9 : Digits[d + 1] = ds[Len(ds)])

RECURSIVE Pow10(_)
Pow10(k) == IF k = 0 THEN 1 ELSE 10 * Pow10(k - 1)

\* the rate, in hertz, that a logged "W.F Hz" denotes as a decimal number, as
\* a fraction num / den
Denoted(text) ==
    LET dot   == CHOOSE i \in DOMAIN text : text[i] = "."
        whole == SubSeq(text, 1, dot - 1)
        frac  == SubSeq(text, dot + 1, Len(text) - 3)
    IN  [num |-> Number(whole) * Pow10(Len(frac)) + Number(frac),
         den |-> Pow10(Len(frac))]

\* C25: in the monitor dump every logged refresh rate "W.F Hz" denotes, as a
\* decimal number, exactly m / 1000 hertz for the millihertz value m it was
\* made from, so that two lines made from different values denote different
\* rates.
C25_RefreshRateDenoted ==
    \A i \in Positions(calls, "dump_monitors") :
        LET lines == calls[i].res
        IN  /\ \A j \in DOMAIN lines :
                  Denoted(lines[j].text).num * 1000
                      = lines[j].m_hz * Denoted(lines[j].text).den
            /\ \A j, k \in DOMAIN lines :
                  lines[j].m_hz /= lines[k].m_hz =>
                      Denoted(lines[j].text).num * Denoted(lines[k].text).den
                          /= Denoted(lines[k].text).num * Denoted(lines[j].text).den

====
